---------------------------- MODULE Spec2Model ----------------------------
(***************************************************************************)
(* A model of CVLCore's frame-processing pipeline: the ChainProcessing     *)
(* coordinator (src/src/api/chain.rs) and the primitives it sequences      *)
(* (src/src/lib.rs).                                                       *)
(*                                                                         *)
(* A CvlMat is a record [typ, rows, cols, px, stat]: px is the row-major   *)
(* pixel sequence (an integer per pixel for a single-channel mat, a tuple  *)
(* of channel values otherwise) and stat the Statistic side channel        *)
(* (<<>> for None, <<ch1, ch2, ch3, ch4>> for Some).                       *)
(* A ProcessingResult is a record [tag, mat, err] with tag "Ok" or "Err";  *)
(* a primitive that panics (an unwrap() on None/Err, an index out of       *)
(* range) yields tag "Panic".                                              *)
(***************************************************************************)
EXTENDS Integers, Sequences, FiniteSets, TLC

(***************************************************************************)
(* Bounds of the model.                                                    *)
(***************************************************************************)
\* frames_count is chosen at construction from 1 .. MaxFramesCount
MaxFramesCount == 5
\* a caller that invokes the operations in any order is followed while the
\* frame history holds at most MaxFrames frames and the statistic history at
\* most MaxStats entries
MaxFrames == 2
MaxStats == 5
\* frames the per-frame driver pushes through the chain
MaxPasses == 7
\* the reductions are applied to up to MaxLen frames with pixels 0 .. MaxPixel
MaxLen == 4
MaxPixel == 1
\* ring buffers are constructed with capacity 0 .. MaxCapacity and followed for
\* MaxPushes pushes of values 1 .. MaxValue
MaxCapacity == 3
MaxPushes == 5
MaxValue == 2
\* compute_statistic is applied to histories of up to MaxHistory entries
MaxHistory == 5
\* stream addresses are strings of up to MaxAddressLen characters
MaxAddressLen == 2

(***************************************************************************)
(* Program constants.                                                      *)
(***************************************************************************)
CHANNELS_COUNT == 4
POW_DIFF_VALUE == 2
DEFAULT_NEIGHBOURS == 8
DEFAULT_WINDOW_SIZE == 2
U16 == 65536

ColorBoundsDefault == [channel_1 |-> 8, channel_2 |-> 9, channel_3 |-> 10, channel_4 |-> 11]

ColorBoundsGet(bounds, index) ==
    CASE index = 1 -> bounds.channel_1
      [] index = 2 -> bounds.channel_2
      [] index = 3 -> bounds.channel_3
      [] index = 4 -> bounds.channel_4
      [] OTHER -> 0

RED_COLOR == <<0, 0, 255, 0>>
CYAN_COLOR == <<255, 255, 0, 0>>
GREEN_COLOR == <<0, 255, 0, 0>>
YELLOW_COLOR == <<0, 255, 255, 0>>
BLACK_COLOR == <<0, 0, 0, 0>>

(***************************************************************************)
(* CvlMat and ProcessingResult.                                            *)
(***************************************************************************)
NoStatistic == <<>>

Mat(typ, rows, cols, px) == [typ |-> typ, rows |-> rows, cols |-> cols, px |-> px, stat |-> NoStatistic]

\* CvlMat::default(): an empty Mat (type 0 = CV_8UC1, no rows, no columns)
CvlMatDefault == Mat("8UC1", 0, 0, <<>>)

set_statistic(mat, statistic) == [mat EXCEPT !.stat = statistic]

Channels(mat) ==
    CASE mat.typ = "8UC1" -> 1
      [] mat.typ = "8UC3" -> 3
      [] OTHER -> 4

IsEmptyMat(mat) == mat.rows = 0 \/ mat.cols = 0

Ok(mat) == [tag |-> "Ok", mat |-> mat, err |-> "-"]
Err(kind) == [tag |-> "Err", mat |-> CvlMatDefault, err |-> kind]
Panic == [tag |-> "Panic", mat |-> CvlMatDefault, err |-> "-"]

IsOk(res) == res.tag = "Ok"
IsErr(res) == res.tag = "Err"
IsPanic(res) == res.tag = "Panic"

Abs(x) == IF x < 0 THEN -x ELSE x

\* pixel (row, col), 0-based, of a mat
At(mat, row, col) == mat.px[row * mat.cols + col + 1]

(***************************************************************************)
(* gen_diff_frame: opencv's absdiff, which needs two arrays of the same    *)
(* size and type.                                                          *)
(***************************************************************************)
AbsDiffPixel(p, q, channels) ==
    IF channels = 1 THEN Abs(p - q)
    ELSE [ch \in 1..channels |-> Abs(p[ch] - q[ch])]

gen_diff_frame(img1, img2) ==
    IF img1.typ = img2.typ /\ img1.rows = img2.rows /\ img1.cols = img2.cols
    THEN Ok(Mat(img1.typ, img1.rows, img1.cols,
                [i \in 1..Len(img1.px) |-> AbsDiffPixel(img1.px[i], img2.px[i], Channels(img1))]))
    ELSE Err("GenDifferences")

(***************************************************************************)
(* gen_abs_frame_reduce: the left fold of gen_diff_frame(..).unwrap() over *)
(* the frames; None (no frame) becomes Err(GenAbs).                        *)
(***************************************************************************)
RECURSIVE ReduceFrom(_, _, _)
ReduceFrom(acc, frame_images, i) ==
    IF i > Len(frame_images) THEN Ok(acc)
    ELSE LET d == gen_diff_frame(acc, frame_images[i])
         IN IF IsOk(d) THEN ReduceFrom(d.mat, frame_images, i + 1) ELSE Panic

\* a fold seeded with the first frame that then folds the first frame again
gen_abs_frame_reduce_first_twice(frame_images) ==
    IF Len(frame_images) = 0 THEN Err("GenAbs")
    ELSE ReduceFrom(frame_images[1], frame_images, 1)

gen_abs_frame_reduce(frame_images) ==
    IF Len(frame_images) = 0 THEN Err("GenAbs")
    ELSE ReduceFrom(frame_images[1], frame_images, 2)

(***************************************************************************)
(* gen_abs_frame: the recursive reduction against the last frame.          *)
(***************************************************************************)
\* the recursive reduction done as the left fold is
gen_abs_frame_as_fold(frame_images) ==
    IF Len(frame_images) = 0 THEN Panic
    ELSE ReduceFrom(frame_images[1], frame_images, 2)

RECURSIVE gen_abs_frame(_)
gen_abs_frame(frame_images) ==
    IF Len(frame_images) <= 1
    THEN IF Len(frame_images) = 0 THEN Panic ELSE Ok(frame_images[1])
    ELSE LET n == Len(frame_images)
             base_image == frame_images[n]
             diffs == [i \in 1..(n - 1) |-> gen_diff_frame(base_image, frame_images[i])]
         IN IF \E i \in 1..(n - 1) : ~IsOk(diffs[i]) THEN Panic
            ELSE gen_abs_frame([i \in 1..(n - 1) |-> diffs[i].mat])

(***************************************************************************)
(* gen_grayscale_frame: opencv's cvt_color(COLOR_BGR2GRAY), which accepts  *)
(* a non-empty 3-channel 8-bit frame; the luminance is opencv's 15-bit     *)
(* fixed-point 0.114 B + 0.587 G + 0.299 R.                                *)
(***************************************************************************)
GrayOfBgr(p) == (p[1] * 3735 + p[2] * 19235 + p[3] * 9798 + 16384) \div 32768

gen_grayscale_frame(frame) ==
    IF frame.typ = "8UC3" /\ ~IsEmptyMat(frame)
    THEN Ok(Mat("8UC1", frame.rows, frame.cols,
                [i \in 1..Len(frame.px) |-> GrayOfBgr(frame.px[i])]))
    ELSE Err("GenGrayScale")

(***************************************************************************)
(* gen_canny_frame_by_sigma: calculate_mat_median unwraps the frame's data *)
(* as u8 (a panic for any other element type); opencv's canny rejects an   *)
(* empty frame.  The edge map itself is the library's: an 8-bit frame of   *)
(* the input's size, every pixel 0 or 255, given here as the argument      *)
(* edges.                                                                  *)
(***************************************************************************)
gen_canny_frame_by_sigma(frame, edges) ==
    IF frame.typ # "8UC1" THEN Panic
    ELSE IF IsEmptyMat(frame) THEN Err("GenCanny")
    ELSE Ok(Mat("8UC1", frame.rows, frame.cols, edges))

(***************************************************************************)
(* create_roi_mat: Rect::from_points(l_corn, r_corn) has its top-left at   *)
(* the smaller coordinates and width/height the coordinate differences;    *)
(* Mat::roi fails unless the rectangle lies inside the frame.              *)
(***************************************************************************)
Min(a, b) == IF a < b THEN a ELSE b
Max(a, b) == IF a > b THEN a ELSE b

RectFromPoints(x1, y1, x2, y2) ==
    [x |-> Min(x1, x2), y |-> Min(y1, y2),
     width |-> Max(x1, x2) - Min(x1, x2), height |-> Max(y1, y2) - Min(y1, y2)]

RoiRect(row, col, window) ==
    RectFromPoints(col - window, row - window, col + window, row + window)

RoiValid(frame, rect) ==
    /\ 0 <= rect.x /\ 0 <= rect.width /\ rect.x + rect.width <= frame.cols
    /\ 0 <= rect.y /\ 0 <= rect.height /\ rect.y + rect.height <= frame.rows

create_roi_mat(frame, row, col, window) ==
    LET rect == RoiRect(row, col, window)
    IN [some |-> RoiValid(frame, rect), rect |-> rect]

\* count_non_zero of the region rect of a single-channel frame
count_non_zero(frame, rect) ==
    Cardinality({rc \in (rect.y..(rect.y + rect.height - 1)) \X (rect.x..(rect.x + rect.width - 1)) :
                    At(frame, rc[1], rc[2]) # 0})

(***************************************************************************)
(* compute_vibration: the ladder over the neighbour count of every         *)
(* non-zero pixel outside row 0 and column 0 whose region of interest      *)
(* exists.  Class 0 is BLACK, classes 1..4 bump ch1..ch4.                  *)
(***************************************************************************)
\* a ladder whose guards are strict
VibrationClassStrict(non_zero_count, color_bounds) ==
    IF non_zero_count > ColorBoundsGet(color_bounds, 4) THEN 4
    ELSE IF non_zero_count > ColorBoundsGet(color_bounds, 3) THEN 3
    ELSE IF non_zero_count > ColorBoundsGet(color_bounds, 2) THEN 2
    ELSE IF non_zero_count > ColorBoundsGet(color_bounds, 1) THEN 1
    ELSE 0

VibrationClass(non_zero_count, color_bounds) ==
    IF non_zero_count >= ColorBoundsGet(color_bounds, 4) THEN 4
    ELSE IF non_zero_count >= ColorBoundsGet(color_bounds, 3) THEN 3
    ELSE IF non_zero_count >= ColorBoundsGet(color_bounds, 2) THEN 2
    ELSE IF non_zero_count >= ColorBoundsGet(color_bounds, 1) THEN 1
    ELSE 0

ClassColor(class) ==
    CASE class = 4 -> RED_COLOR
      [] class = 3 -> YELLOW_COLOR
      [] class = 2 -> CYAN_COLOR
      [] class = 1 -> GREEN_COLOR
      [] OTHER -> BLACK_COLOR

\* a loop that runs over every point, zero pixels included
ProcessedPixelWithZeros(frame, row, col, window_size) ==
    /\ row # 0 /\ col # 0
    /\ create_roi_mat(frame, row, col, window_size).some

\* the pixels the loop classifies: non-zero, row > 0, col > 0, ROI created
ProcessedPixel(frame, row, col, window_size) ==
    /\ At(frame, row, col) # 0
    /\ row # 0 /\ col # 0
    /\ create_roi_mat(frame, row, col, window_size).some

\* the ladder applied to zero pixels too
PixelClassOfAnyPixel(frame, row, col, window_size, color_bounds) ==
    IF row # 0 /\ col # 0 /\ create_roi_mat(frame, row, col, window_size).some
    THEN VibrationClass(count_non_zero(frame, RoiRect(row, col, window_size)), color_bounds)
    ELSE 0

PixelClass(frame, row, col, window_size, color_bounds) ==
    IF ProcessedPixel(frame, row, col, window_size)
    THEN VibrationClass(count_non_zero(frame, RoiRect(row, col, window_size)), color_bounds)
    ELSE 0

\* the ladder behind the floor "non_zero_count < neighbours => continue"
compute_vibration_with_floor(image, neighbours, window_size, color_bounds) ==
    IF image.typ # "8UC1" \/ IsEmptyMat(image) THEN Panic
    ELSE LET class == [i \in 1..(image.rows * image.cols) |->
                          LET row == (i - 1) \div image.cols
                              col == (i - 1) % image.cols
                          IN IF /\ ProcessedPixel(image, row, col, window_size)
                                /\ count_non_zero(image, RoiRect(row, col, window_size)) < neighbours
                             THEN 0
                             ELSE PixelClass(image, row, col, window_size, color_bounds)]
             counter(ch) == Cardinality({i \in 1..(image.rows * image.cols) : class[i] = ch}) % U16
             statistic == <<counter(1), counter(2), counter(3), counter(4)>>
         IN Ok(set_statistic(Mat("64FC4", image.rows, image.cols,
                                 [i \in 1..(image.rows * image.cols) |-> ClassColor(class[i])]),
                             statistic))

compute_vibration(image, neighbours, window_size, color_bounds) ==
    IF image.typ # "8UC1" \/ IsEmptyMat(image) THEN Panic
    ELSE LET class == [i \in 1..(image.rows * image.cols) |->
                          PixelClass(image, (i - 1) \div image.cols, (i - 1) % image.cols,
                                     window_size, color_bounds)]
             counter(ch) == Cardinality({i \in 1..(image.rows * image.cols) : class[i] = ch}) % U16
             statistic == <<counter(1), counter(2), counter(3), counter(4)>>
         IN Ok(set_statistic(Mat("64FC4", image.rows, image.cols,
                                 [i \in 1..(image.rows * image.cols) |-> ClassColor(class[i])]),
                             statistic))

(***************************************************************************)
(* compute_statistic: stats_medians holds one truncated u16 mean per       *)
(* history entry (the mean of that entry's four channels);                 *)
(* compute_math_expectation reads medians[index] for index 0..3, which     *)
(* panics when the history has fewer than CHANNELS_COUNT entries.          *)
(*                                                                         *)
(* Widths: Array::mean adds the u16 channels in u16, and (carr - cmed) is  *)
(* squared in i32.  A build without overflow checks wraps; a build with    *)
(* them panics at the first overflow.  The result carries the value of the *)
(* wrapping build and, in overflowed, whether an overflow happened.        *)
(*                                                                         *)
(* A sum of squares is kept exactly, as [hi, lo] standing for              *)
(* hi * 2^16 + lo with 0 <= lo < 2^16 (the code accumulates it in f32).    *)
(* The result holds, per channel, that sum of squared deviations; the code *)
(* returns sqrt of it divided by normalization.                            *)
(***************************************************************************)
SumSeq(s) == LET RECURSIVE Sum(_)
                 Sum(i) == IF i = 0 THEN 0 ELSE s[i] + Sum(i - 1)
             IN Sum(Len(s))

ArrayMean(array) == (SumSeq(array) % U16) \div CHANNELS_COUNT

MeanOverflows(array) == SumSeq(array) >= U16

Wide(hi, lo) == [hi |-> hi, lo |-> lo]

WideZero == Wide(0, 0)

AddWide(x, y) == Wide(x.hi + y.hi + ((x.lo + y.lo) \div U16), (x.lo + y.lo) % U16)

IsNegativeWide(x) == x.hi < 0

\* d ^ POW_DIFF_VALUE for 0 <= d < 2^16, exactly: with d = h * 2^8 + l,
\* d^2 = h^2 * 2^16 + 2hl * 2^8 + l^2
SquareWide(d) ==
    LET h == d \div 256
        l == d % 256
        cross == POW_DIFF_VALUE * h * l
        low == l ^ POW_DIFF_VALUE + (cross % 256) * 256
    IN Wide(h ^ POW_DIFF_VALUE + (cross \div 256) + (low \div U16), low % U16)

\* i32::pow overflows when the square needs more than 31 bits
PowOverflows(carr, cmed) == SquareWide(Abs(carr - cmed)).hi >= U16 \div 2

\* (carr - cmed).pow(POW_DIFF_VALUE) as i32, wrapped to 32 bits
PowI32(carr, cmed) ==
    LET square == SquareWide(Abs(carr - cmed))
    IN IF square.hi >= U16 \div 2 THEN Wide(square.hi - U16, square.lo) ELSE square

compute_math_expectation(tmp_slice, array, medians) ==
    [index \in 1..CHANNELS_COUNT |->
        AddWide(tmp_slice[index], PowI32(array[index], medians[index]))]

RECURSIVE ExpectationFrom(_, _, _, _)
ExpectationFrom(tmp_slice, history_stats, medians, i) ==
    IF i > Len(history_stats) THEN tmp_slice
    ELSE ExpectationFrom(compute_math_expectation(tmp_slice, history_stats[i], medians),
                         history_stats, medians, i + 1)

ZeroSlice == [index \in 1..CHANNELS_COUNT |-> WideZero]

compute_statistic(history_stats, normalization) ==
    LET stats_medians == [i \in 1..Len(history_stats) |-> ArrayMean(history_stats[i])]
        mean_overflowed == \E i \in 1..Len(history_stats) : MeanOverflows(history_stats[i])
    IN IF Len(history_stats) = 0
       THEN [tag |-> "Ok", ssd |-> ZeroSlice, normalization |-> normalization, overflowed |-> FALSE]
       ELSE IF Len(stats_medians) < CHANNELS_COUNT
       THEN [tag |-> "Panic", ssd |-> <<>>, normalization |-> normalization,
             overflowed |-> mean_overflowed]
       ELSE [tag |-> "Ok",
             ssd |-> ExpectationFrom(ZeroSlice, history_stats, stats_medians, 1),
             normalization |-> normalization,
             overflowed |-> \/ mean_overflowed
                            \/ \E i \in 1..Len(history_stats), index \in 1..CHANNELS_COUNT :
                                  PowOverflows(history_stats[i][index], stats_medians[index])]

\* what the caller gets in a build with (overflow_checks) or without the checks
BuildOutcome(computed, overflow_checks) ==
    IF computed.tag = "Panic" \/ (overflow_checks /\ computed.overflowed)
    THEN [tag |-> "Panic", ssd |-> <<>>, normalization |-> computed.normalization]
    ELSE [tag |-> "Ok", ssd |-> computed.ssd, normalization |-> computed.normalization]


(***************************************************************************)
(* The frames of the model: what the capture delivers (BGR frames) and the *)
(* edge maps opencv's canny may answer with.                               *)
(***************************************************************************)
\* The capture delivers square frames.  The chain model keeps them one pixel
\* wider than the window: no region of interest (side 2 * window_size) fits,
\* so every Statistic of the chain is <<0, 0, 0, 0>>; the ladder itself is
\* exercised on the frames of the vibration model.
Side == DEFAULT_WINDOW_SIZE + 1

Pixels == 1..(Side * Side)

BgrFrame(b, g, r) == Mat("8UC3", Side, Side, [i \in Pixels |-> <<b, g, r>>])

InputFrames == {BgrFrame(255, 255, 255)}

BlankEdges == [i \in Pixels |-> 0]
DenseEdges == [i \in Pixels |-> 255]

EdgeMaps == {BlankEdges, DenseEdges}

EdgeFrames == {Mat("8UC1", Side, Side, e) : e \in EdgeMaps}

\* the histories a caller hands to set_frames
FrameLists == {<<>>} \cup {<<f>> : f \in EdgeFrames} \cup {<<f, g>> : f \in EdgeFrames, g \in EdgeFrames}
                  \cup {<<f, g, h>> : f \in EdgeFrames, g \in EdgeFrames, h \in EdgeFrames}

(***************************************************************************)
(* State: the fields of ChainProcessing, whether the thread has panicked,  *)
(* the method called last (op), what it returned to the caller when it was *)
(* get_result (the value lives until the next call), the position of the   *)
(* per-frame loop of a caller (pc, the frames read so far, the passes      *)
(* whose reduce_abs answered Ok, the stage its chain ends with), and, for  *)
(* the reductions taken alone, the frames handed to the reduction called   *)
(* last and its answer (abs_in, abs_call, abs_out).                        *)
(***************************************************************************)
VARIABLES result, frames, statistics, dispersion, frames_count,
          aborted, op, returned, pc, pass, warmed, last_stage,
          abs_in, abs_call, abs_out

\* the ring buffer taken alone (core/deque.rs): the VecDeque (its elements and
\* its capacity), the size it was constructed with, the values pushed since,
\* whether an element was taken since, and the method called last
VARIABLES deque, deque_size, deque_pushed, deque_taken, deque_op

dequeVars == <<deque, deque_size, deque_pushed, deque_taken, deque_op>>

\* compute_statistic taken alone: the history handed to it, whether the build
\* checks integer overflow, and what the call returned
VARIABLES stat_in, stat_checks, stat_out

statVars == <<stat_in, stat_checks, stat_out>>

\* compute_vibration taken alone: its arguments but neighbours, and for each
\* call made on them the neighbours passed and the value returned
VARIABLES vib_in, vib_runs

vibVars == <<vib_in, vib_runs>>

\* CvlCapture (api/capture.rs): whether the VideoCapture is opened, the method
\* called last with its arguments, and what it returned
VARIABLES cap_opened, cap_call, cap_out

capVars == <<cap_opened, cap_call, cap_out>>

aside == <<dequeVars, statVars, vibVars, capVars>>

chain == <<result, frames, statistics, dispersion, frames_count>>
caller == <<pc, pass, warmed, last_stage>>
reduction == <<abs_in, abs_call, abs_out>>
vars == <<result, frames, statistics, dispersion, frames_count,
          aborted, op, returned, pc, pass, warmed, last_stage,
          abs_in, abs_call, abs_out,
          deque, deque_size, deque_pushed, deque_taken, deque_op,
          stat_in, stat_checks, stat_out,
          vib_in, vib_runs, cap_opened, cap_call, cap_out>>

NoDispersion == <<>>
NothingReturned == [tag |-> "None", mat |-> CvlMatDefault, err |-> "-"]

DEFAULT_NORMALIZATION == 10

(***************************************************************************)
(* CvlMatDeque<T>: a VecDeque whose capacity() serves as the maximum size. *)
(* VecDeque::with_capacity(n) allocates room for exactly n elements (the   *)
(* deque test asserts max_size() = 5 after with_capacity(5)); push_back on *)
(* a full buffer reallocates to max(2 * capacity, MIN_NON_ZERO_CAP).       *)
(***************************************************************************)
MIN_NON_ZERO_CAP == 4

VecDequeWithCapacity(size) == [inner |-> <<>>, capacity |-> size]

push_back(dq, value) ==
    [inner |-> Append(dq.inner, value),
     capacity |-> IF Len(dq.inner) = dq.capacity
                  THEN Max(2 * dq.capacity, MIN_NON_ZERO_CAP)
                  ELSE dq.capacity]

\* VecDeque::remove(0): None on an empty deque, no panic
remove_first(dq) == [dq EXCEPT !.inner = IF Len(dq.inner) = 0 THEN <<>> ELSE Tail(dq.inner)]

length(dq) == Len(dq.inner)

max_size(dq) == dq.capacity

DequePush(dq, value) ==
    LET curr_len == length(dq)
        curr_max == max_size(dq)
    IN IF curr_len >= curr_max THEN push_back(remove_first(dq), value)
       ELSE push_back(dq, value)

take_first(dq) == remove_first(dq)

take_last(dq) ==
    [dq EXCEPT !.inner = IF Len(dq.inner) = 0 THEN <<>> ELSE SubSeq(dq.inner, 1, Len(dq.inner) - 1)]

DequeIdle ==
    /\ deque = VecDequeWithCapacity(0)
    /\ deque_size = 0
    /\ deque_pushed = <<>>
    /\ deque_taken = FALSE
    /\ deque_op = "-"

NotCalled == [tag |-> "None", ssd |-> <<>>, normalization |-> 0]

StatIdle ==
    /\ stat_in = <<>>
    /\ stat_checks = FALSE
    /\ stat_out = NotCalled

NoVibrationInput == [image |-> CvlMatDefault, window_size |-> 0, color_bounds |-> ColorBoundsDefault]

VibIdle ==
    /\ vib_in = NoVibrationInput
    /\ vib_runs = <<>>

NoCall == [op |-> "-", address |-> <<>>, source_type |-> "-"]

CapIdle ==
    /\ cap_opened = FALSE
    /\ cap_call = NoCall
    /\ cap_out = "-"

AsideIdle == DequeIdle /\ StatIdle /\ VibIdle /\ CapIdle

\* ChainProcessing::new(settings) with settings.frames_count = n
Init ==
    /\ frames_count \in 1..MaxFramesCount
    /\ result = Ok(CvlMatDefault)
    /\ frames = <<>>
    /\ statistics = <<>>
    /\ dispersion = NoDispersion
    /\ aborted = FALSE
    /\ op = "new"
    /\ returned = NothingReturned
    /\ pc = "-"
    /\ pass = 0
    /\ warmed = 0
    /\ last_stage = "-"
    /\ abs_in = <<>>
    /\ abs_call = "-"
    /\ abs_out = NothingReturned
    /\ AsideIdle

(***************************************************************************)
(* The operations of ChainProcessing.  Each is the whole method; a panic   *)
(* sets aborted and leaves the assignment to the slot undone.              *)
(***************************************************************************)
set_frames(mat_frames) ==
    /\ ~aborted
    /\ op' = "set_frames"
    /\ frames' = frames \o mat_frames
    /\ UNCHANGED <<result, statistics, dispersion, frames_count, aborted>>
    /\ returned' = NothingReturned

\* a run_chain that replaces only a slot holding Ok
run_chain_on_ok_slot(mat) ==
    /\ ~aborted
    /\ op' = "run_chain"
    /\ result' = IF IsOk(result) THEN Ok(mat) ELSE result
    /\ UNCHANGED <<frames, statistics, dispersion, frames_count, aborted>>
    /\ returned' = NothingReturned

run_chain(mat) ==
    /\ ~aborted
    /\ op' = "run_chain"
    /\ result' = Ok(mat)
    /\ UNCHANGED <<frames, statistics, dispersion, frames_count, aborted>>
    /\ returned' = NothingReturned

grayscale ==
    /\ ~aborted
    /\ op' = "grayscale"
    /\ result' = IF IsOk(result) THEN gen_grayscale_frame(result.mat)
                 ELSE Err("GenGrayScale")
    /\ UNCHANGED <<frames, statistics, dispersion, frames_count, aborted>>
    /\ returned' = NothingReturned

canny ==
    /\ ~aborted
    /\ op' = "canny"
    /\ \E edges \in EdgeMaps :
         LET res == IF IsOk(result) THEN gen_canny_frame_by_sigma(result.mat, edges)
                    ELSE Err("GenCanny")
         IN /\ aborted' = IsPanic(res)
            /\ result' = IF IsPanic(res) THEN result ELSE res
    /\ UNCHANGED <<frames, statistics, dispersion, frames_count>>
    /\ returned' = NothingReturned

\* an append_frame that puts the frame at the head of the history
append_frame_at_head ==
    /\ ~aborted
    /\ op' = "append_frame"
    /\ IF IsOk(result)
       THEN /\ frames' = <<result.mat>> \o frames
            /\ result' = Ok(CvlMatDefault)
       ELSE /\ result' = Err("GenAbs")
            /\ frames' = frames
    /\ UNCHANGED <<statistics, dispersion, frames_count, aborted>>
    /\ returned' = NothingReturned

append_frame ==
    /\ ~aborted
    /\ op' = "append_frame"
    /\ IF IsOk(result)
       THEN /\ frames' = Append(frames, result.mat)
            /\ result' = Ok(CvlMatDefault)
       ELSE /\ result' = Err("GenAbs")
            /\ frames' = frames
    /\ UNCHANGED <<statistics, dispersion, frames_count, aborted>>
    /\ returned' = NothingReturned

\* the arm Err(_) => Err(GenAbs) of a stage's match on the slot
SlotIsErrIgnored(slot) == FALSE

SlotIsErr(slot) == IsErr(slot)

\* a reduce_abs that folds the whole history and drops its head afterwards
reduce_abs_folds_before_drop ==
    /\ ~aborted
    /\ op' = "reduce_abs"
    /\ IF Len(frames) < frames_count
       THEN /\ result' = Err("GenAbs")
            /\ UNCHANGED <<frames, aborted>>
       ELSE IF SlotIsErr(result)
       THEN /\ result' = Err("GenAbs")
            /\ UNCHANGED <<frames, aborted>>
       ELSE LET res == gen_abs_frame_reduce(frames)
            IN /\ frames' = Tail(frames)
               /\ aborted' = IsPanic(res)
               /\ result' = IF IsPanic(res) THEN result ELSE res
    /\ UNCHANGED <<statistics, dispersion, frames_count>>
    /\ returned' = NothingReturned

\* a reduce_abs that drops the newest frame of the history
reduce_abs_drops_newest ==
    /\ ~aborted
    /\ op' = "reduce_abs"
    /\ IF Len(frames) < frames_count
       THEN /\ result' = Err("GenAbs")
            /\ UNCHANGED <<frames, aborted>>
       ELSE IF SlotIsErr(result)
       THEN /\ result' = Err("GenAbs")
            /\ UNCHANGED <<frames, aborted>>
       ELSE LET kept == SubSeq(frames, 1, Len(frames) - 1)
                res == gen_abs_frame_reduce(kept)
            IN /\ frames' = kept
               /\ aborted' = IsPanic(res)
               /\ result' = IF IsPanic(res) THEN result ELSE res
    /\ UNCHANGED <<statistics, dispersion, frames_count>>
    /\ returned' = NothingReturned

reduce_abs ==
    /\ ~aborted
    /\ op' = "reduce_abs"
    /\ IF Len(frames) < frames_count
       THEN /\ result' = Err("GenAbs")
            /\ UNCHANGED <<frames, aborted>>
       ELSE IF SlotIsErr(result)
       THEN /\ result' = Err("GenAbs")
            /\ UNCHANGED <<frames, aborted>>
       ELSE LET res == gen_abs_frame_reduce(Tail(frames))
            IN /\ frames' = Tail(frames)
               /\ aborted' = IsPanic(res)
               /\ result' = IF IsPanic(res) THEN result ELSE res
    /\ UNCHANGED <<statistics, dispersion, frames_count>>
    /\ returned' = NothingReturned

abs_recursively ==
    /\ ~aborted
    /\ op' = "abs_recursively"
    /\ IF IsErr(result)
       THEN /\ result' = Err("GenAbs")
            /\ UNCHANGED <<frames, aborted>>
       ELSE IF Len(frames) = 0
       THEN /\ aborted' = TRUE
            /\ UNCHANGED <<result, frames>>
       ELSE LET res == gen_abs_frame(Tail(frames))
            IN /\ frames' = Tail(frames)
               /\ aborted' = IsPanic(res)
               /\ result' = IF IsPanic(res) THEN result ELSE res
    /\ UNCHANGED <<statistics, dispersion, frames_count>>
    /\ returned' = NothingReturned

\* statistics.push(stat); if statistics.len() > frames_count { statistics.remove(0) }
PushEvict(history, stat, capacity) ==
    IF Len(history) + 1 > capacity THEN Tail(Append(history, stat))
    ELSE Append(history, stat)

vibrating ==
    /\ ~aborted
    /\ op' = "vibrating"
    /\ IF IsErr(result)
       THEN /\ result' = Err("GenAbs")
            /\ UNCHANGED <<statistics, aborted>>
       ELSE LET res == compute_vibration(result.mat, DEFAULT_NEIGHBOURS,
                                         DEFAULT_WINDOW_SIZE, ColorBoundsDefault)
            IN IF IsPanic(res) \/ (IsOk(res) /\ res.mat.stat = NoStatistic)
               THEN /\ aborted' = TRUE
                    /\ UNCHANGED <<result, statistics>>
               ELSE IF IsErr(res)
               THEN /\ result' = res
                    /\ UNCHANGED <<statistics, aborted>>
               ELSE /\ statistics' = PushEvict(statistics, res.mat.stat, frames_count)
                    /\ result' = res
                    /\ UNCHANGED aborted
    /\ UNCHANGED <<frames, dispersion, frames_count>>
    /\ returned' = NothingReturned

\* old_stats.len() >= self.settings.frames_count, one entry early
StatisticsReachedEarly(len, count) == len >= count - 1

StatisticsReached(len, count) == len >= count

statistic ==
    /\ ~aborted
    /\ op' = "statistic"
    /\ IF IsErr(result)
       THEN /\ result' = Err("ComputeStatistic")
            /\ UNCHANGED <<statistics, dispersion, aborted>>
       ELSE IF result.mat.stat = NoStatistic
       THEN /\ aborted' = TRUE
            /\ UNCHANGED <<result, statistics, dispersion>>
       ELSE LET old_stats == Append(statistics, result.mat.stat)
                computed == compute_statistic(old_stats, DEFAULT_NORMALIZATION)
            IN /\ statistics' = old_stats
               /\ IF StatisticsReached(Len(old_stats), frames_count)
                  THEN \E overflow_checks \in (IF computed.overflowed THEN BOOLEAN ELSE {FALSE}) :
                       IF BuildOutcome(computed, overflow_checks).tag = "Panic"
                       THEN /\ aborted' = TRUE
                            /\ UNCHANGED <<result, dispersion>>
                       ELSE /\ dispersion' = computed.ssd
                            /\ result' = Ok(result.mat)
                            /\ UNCHANGED aborted
                  ELSE /\ result' = Ok(result.mat)
                       /\ UNCHANGED <<dispersion, aborted>>
    /\ UNCHANGED <<frames, frames_count>>
    /\ returned' = NothingReturned

get_result ==
    /\ ~aborted
    /\ op' = "get_result"
    /\ returned' = IF IsOk(result) THEN Ok(result.mat) ELSE Err("ComputeVibration")
    /\ UNCHANGED <<result, frames, statistics, dispersion, frames_count, aborted>>

(***************************************************************************)
(* A caller that invokes the operations in any order.                      *)
(***************************************************************************)
WithinBounds == Len(frames') <= MaxFrames /\ Len(statistics') <= MaxStats

Next ==
    \/ \E mat_frames \in FrameLists : set_frames(mat_frames) /\ WithinBounds /\ UNCHANGED <<caller, reduction, aside>>
    \/ \E mat \in InputFrames : run_chain(mat) /\ UNCHANGED <<caller, reduction, aside>>
    \/ grayscale /\ UNCHANGED <<caller, reduction, aside>>
    \/ canny /\ UNCHANGED <<caller, reduction, aside>>
    \/ append_frame /\ WithinBounds /\ UNCHANGED <<caller, reduction, aside>>
    \/ reduce_abs /\ UNCHANGED <<caller, reduction, aside>>
    \/ abs_recursively /\ UNCHANGED <<caller, reduction, aside>>
    \/ vibrating /\ WithinBounds /\ UNCHANGED <<caller, reduction, aside>>
    \/ statistic /\ WithinBounds /\ UNCHANGED <<caller, reduction, aside>>
    \/ get_result /\ UNCHANGED <<caller, reduction, aside>>

Spec == Init /\ [][Next]_vars

(***************************************************************************)
(* The per-frame loop of a caller (processing_stream, test_chain_statistic *)
(* and test_chain_processing): every frame read goes through               *)
(*   run_chain -> grayscale -> canny -> append_frame -> reduce_abs         *)
(*             -> vibrating [-> statistic]                                 *)
(* and the caller then asks get_result.  pass counts the frames read,      *)
(* warmed the passes whose reduce_abs left the slot Ok; last_stage says    *)
(* whether the chain ends with vibrating or with statistic.                *)
(***************************************************************************)
InitPipeline ==
    /\ frames_count \in 1..MaxFramesCount
    /\ result = Ok(CvlMatDefault)
    /\ frames = <<>>
    /\ statistics = <<>>
    /\ dispersion = NoDispersion
    /\ aborted = FALSE
    /\ op = "new"
    /\ returned = NothingReturned
    /\ pc = "run_chain"
    /\ pass = 0
    /\ warmed = 0
    /\ last_stage \in {"vibrating", "statistic"}
    /\ abs_in = <<>>
    /\ abs_call = "-"
    /\ abs_out = NothingReturned
    /\ AsideIdle

PassRunChain ==
    /\ pc = "run_chain"
    /\ pass < MaxPasses
    /\ \E frame \in InputFrames : run_chain(frame)
    /\ pass' = pass + 1
    /\ pc' = "grayscale"
    /\ UNCHANGED <<warmed, last_stage>>
    /\ UNCHANGED <<reduction, aside>>

PassGrayscale ==
    /\ pc = "grayscale"
    /\ grayscale
    /\ pc' = "canny"
    /\ UNCHANGED <<pass, warmed, last_stage>>
    /\ UNCHANGED <<reduction, aside>>

PassCanny ==
    /\ pc = "canny"
    /\ canny
    /\ pc' = "append_frame"
    /\ UNCHANGED <<pass, warmed, last_stage>>
    /\ UNCHANGED <<reduction, aside>>

PassAppendFrame ==
    /\ pc = "append_frame"
    /\ append_frame
    /\ pc' = "reduce_abs"
    /\ UNCHANGED <<pass, warmed, last_stage>>
    /\ UNCHANGED <<reduction, aside>>

PassReduceAbs ==
    /\ pc = "reduce_abs"
    /\ reduce_abs
    /\ warmed' = IF IsOk(result') /\ ~aborted' THEN warmed + 1 ELSE warmed
    /\ pc' = "vibrating"
    /\ UNCHANGED <<pass, last_stage>>
    /\ UNCHANGED <<reduction, aside>>

PassVibrating ==
    /\ pc = "vibrating"
    /\ vibrating
    /\ pc' = IF last_stage = "statistic" THEN "statistic" ELSE "get_result"
    /\ UNCHANGED <<pass, warmed, last_stage>>
    /\ UNCHANGED <<reduction, aside>>

PassStatistic ==
    /\ pc = "statistic"
    /\ statistic
    /\ pc' = "get_result"
    /\ UNCHANGED <<pass, warmed, last_stage>>
    /\ UNCHANGED <<reduction, aside>>

PassGetResult ==
    /\ pc = "get_result"
    /\ get_result
    /\ pc' = "run_chain"
    /\ UNCHANGED <<pass, warmed, last_stage>>
    /\ UNCHANGED <<reduction, aside>>

NextPipeline ==
    \/ PassRunChain
    \/ PassGrayscale
    \/ PassCanny
    \/ PassAppendFrame
    \/ PassReduceAbs
    \/ PassVibrating
    \/ PassStatistic
    \/ PassGetResult

SpecPipeline == InitPipeline /\ [][NextPipeline]_vars

\* the caller has the answer of get_result for the pass just made
PassDone == pc = "run_chain" /\ op = "get_result"


(***************************************************************************)
(* The two reductions taken alone: a caller collects up to MaxLen frames   *)
(* of one size and calls gen_abs_frame_reduce or gen_abs_frame on them.    *)
(***************************************************************************)
AbsCols == Side - 1

AbsFrames == {Mat("8UC1", 1, AbsCols, px) : px \in [1..AbsCols -> 0..MaxPixel]}

ZeroFrameLike(frame) == Mat(frame.typ, frame.rows, frame.cols, [i \in 1..Len(frame.px) |-> 0])

InitAbs ==
    /\ frames_count = 1
    /\ result = Ok(CvlMatDefault)
    /\ frames = <<>>
    /\ statistics = <<>>
    /\ dispersion = NoDispersion
    /\ aborted = FALSE
    /\ op = "new"
    /\ returned = NothingReturned
    /\ pc = "-"
    /\ pass = 0
    /\ warmed = 0
    /\ last_stage = "-"
    /\ abs_in = <<>>
    /\ abs_call = "-"
    /\ abs_out = NothingReturned
    /\ AsideIdle

CollectFrame ==
    /\ Len(abs_in) < MaxLen
    /\ \E frame \in AbsFrames : abs_in' = Append(abs_in, frame)
    /\ abs_call' = "-"
    /\ abs_out' = NothingReturned
    /\ UNCHANGED <<chain, aborted, op, returned, caller, aside>>

CallAbsReduce ==
    /\ abs_call' = "gen_abs_frame_reduce"
    /\ abs_out' = gen_abs_frame_reduce(abs_in)
    /\ UNCHANGED <<abs_in, chain, aborted, op, returned, caller, aside>>

CallAbsRecursive ==
    /\ abs_call' = "gen_abs_frame"
    /\ abs_out' = gen_abs_frame(abs_in)
    /\ UNCHANGED <<abs_in, chain, aborted, op, returned, caller, aside>>

NextAbs ==
    \/ CollectFrame
    \/ CallAbsReduce
    \/ CallAbsRecursive

SpecAbs == InitAbs /\ [][NextAbs]_vars

\* abs_in is N >= 1 copies of one frame
CopiesOfOneFrame == Len(abs_in) >= 1 /\ \A i \in 1..Len(abs_in) : abs_in[i] = abs_in[1]

(***************************************************************************)
(* The ring buffer taken alone: CvlMatDeque::new(size), then any sequence  *)
(* of push, take_first, take_last and set_max_size.                        *)
(***************************************************************************)
ChainIdle ==
    /\ frames_count = 1
    /\ result = Ok(CvlMatDefault)
    /\ frames = <<>>
    /\ statistics = <<>>
    /\ dispersion = NoDispersion
    /\ aborted = FALSE
    /\ op = "new"
    /\ returned = NothingReturned
    /\ pc = "-"
    /\ pass = 0
    /\ warmed = 0
    /\ last_stage = "-"
    /\ abs_in = <<>>
    /\ abs_call = "-"
    /\ abs_out = NothingReturned

chainVars == <<chain, aborted, op, returned, caller, reduction>>

DequeValues == 1..MaxValue

\* CvlMatDeque::new(size)
InitDeque ==
    /\ ChainIdle
    /\ StatIdle /\ VibIdle /\ CapIdle
    /\ deque_size \in 0..MaxCapacity
    /\ deque = VecDequeWithCapacity(deque_size)
    /\ deque_pushed = <<>>
    /\ deque_taken = FALSE
    /\ deque_op = "new"

DequeCallPush ==
    /\ Len(deque_pushed) < MaxPushes
    /\ \E value \in DequeValues :
         /\ deque' = DequePush(deque, value)
         /\ deque_pushed' = Append(deque_pushed, value)
    /\ deque_op' = "push"
    /\ UNCHANGED <<deque_size, deque_taken, chainVars, statVars, vibVars, capVars>>

DequeCallTakeFirst ==
    /\ deque' = take_first(deque)
    /\ deque_taken' = TRUE
    /\ deque_op' = "take_first"
    /\ UNCHANGED <<deque_size, deque_pushed, chainVars, statVars, vibVars, capVars>>

DequeCallTakeLast ==
    /\ deque' = take_last(deque)
    /\ deque_taken' = TRUE
    /\ deque_op' = "take_last"
    /\ UNCHANGED <<deque_size, deque_pushed, chainVars, statVars, vibVars, capVars>>

\* set_max_size(queue_size): the buffer is replaced by a new, empty one
DequeCallSetMaxSize ==
    /\ \E queue_size \in 0..MaxCapacity :
         /\ deque' = VecDequeWithCapacity(queue_size)
         /\ deque_size' = queue_size
    /\ deque_pushed' = <<>>
    /\ deque_taken' = FALSE
    /\ deque_op' = "set_max_size"
    /\ UNCHANGED <<chainVars, statVars, vibVars, capVars>>

NextDeque ==
    \/ DequeCallPush
    \/ DequeCallTakeFirst
    \/ DequeCallTakeLast
    \/ DequeCallSetMaxSize

SpecDeque == InitDeque /\ [][NextDeque]_vars

\* the last n elements of a sequence
LastOf(seq, n) == SubSeq(seq, Len(seq) - n + 1, Len(seq))

(***************************************************************************)
(* compute_statistic taken alone, on histories of Statistics drawn from a  *)
(* pool with small counters and with counters at the top of u16.           *)
(***************************************************************************)
StatisticPool ==
    { <<0, 0, 0, 0>>, <<1, 0, 0, 0>>, <<2, 2, 2, 2>>, <<0, 4, 0, 8>>,
      <<U16 - 1, 0, 0, 0>>, <<U16 - 1, U16 - 1, 0, 0>> }

Histories == UNION {[1..n -> StatisticPool] : n \in 0..MaxHistory}

InitStatistic ==
    /\ ChainIdle
    /\ DequeIdle /\ VibIdle /\ CapIdle
    /\ stat_in \in Histories
    /\ stat_checks \in BOOLEAN
    /\ stat_out = NotCalled

CallComputeStatistic ==
    /\ stat_out = NotCalled
    /\ stat_out' = BuildOutcome(compute_statistic(stat_in, DEFAULT_NORMALIZATION), stat_checks)
    /\ UNCHANGED <<stat_in, stat_checks, chainVars, dequeVars, vibVars, capVars>>

NextStatistic == CallComputeStatistic

SpecStatistic == InitStatistic /\ [][NextStatistic]_vars

\* what the specification of compute_dispersion asks for: per channel, the sum
\* over the history of the squared deviation from the truncated mean of that
\* channel over the history
ChannelMean(history_stats, ch) ==
    SumSeq([i \in 1..Len(history_stats) |-> history_stats[i][ch]]) \div Len(history_stats)

RECURSIVE ChannelDeviation(_, _, _)
ChannelDeviation(history_stats, ch, i) ==
    IF i = 0 THEN WideZero
    ELSE AddWide(ChannelDeviation(history_stats, ch, i - 1),
                 SquareWide(Abs(history_stats[i][ch] - ChannelMean(history_stats, ch))))

PerChannelDeviation(history_stats) ==
    [ch \in 1..CHANNELS_COUNT |-> ChannelDeviation(history_stats, ch, Len(history_stats))]

AllEntriesEqual(history_stats) ==
    \A i \in 1..Len(history_stats) : history_stats[i] = history_stats[1]

(***************************************************************************)
(* compute_vibration taken alone: an edge frame (every pixel 0 or 255), a  *)
(* window and colour bounds are chosen, and the function is called on them *)
(* up to twice, each time with some neighbours value.                      *)
(***************************************************************************)
ColorBoundsNew(ch1, ch2, ch3, ch4) ==
    [channel_1 |-> ch1, channel_2 |-> ch2, channel_3 |-> ch3, channel_4 |-> ch4]

VibrationFrames == {Mat("8UC1", Side, Side, px) : px \in [Pixels -> {0, 255}]}

WindowSizes == {1, DEFAULT_WINDOW_SIZE}

BoundsPool ==
    {ColorBoundsDefault, ColorBoundsNew(1, 2, 3, 4), ColorBoundsNew(2, 3, 4, 5),
     ColorBoundsNew(1, 1, 3, 3)}

NeighbourValues == {0, DEFAULT_NEIGHBOURS}

InitVibration ==
    /\ ChainIdle
    /\ DequeIdle /\ StatIdle /\ CapIdle
    /\ vib_in \in [image : VibrationFrames, window_size : WindowSizes, color_bounds : BoundsPool]
    /\ vib_runs = <<>>

CallComputeVibration ==
    /\ Len(vib_runs) < 2
    /\ \E neighbours \in NeighbourValues :
         vib_runs' = Append(vib_runs,
                            [neighbours |-> neighbours,
                             out |-> compute_vibration(vib_in.image, neighbours,
                                                       vib_in.window_size, vib_in.color_bounds)])
    /\ UNCHANGED <<vib_in, chainVars, dequeVars, statVars, capVars>>

NextVibration == CallComputeVibration

SpecVibration == InitVibration /\ [][NextVibration]_vars

\* the non-zero pixels (r, c) of a frame with r > 0, c > 0 and a valid ROI
ProcessedPixels(frame, window_size) ==
    {rc \in (0..(frame.rows - 1)) \X (0..(frame.cols - 1)) :
        ProcessedPixel(frame, rc[1], rc[2], window_size)}

Ascending(color_bounds) ==
    /\ color_bounds.channel_1 <= color_bounds.channel_2
    /\ color_bounds.channel_2 <= color_bounds.channel_3
    /\ color_bounds.channel_3 <= color_bounds.channel_4

\* the ladder by ranges of the neighbour count k, for ascending bounds:
\* 4 (RED) for k >= b4, 3 (YELLOW) for b3 <= k < b4, 2 (CYAN) for
\* b2 <= k < b3, 1 (GREEN) for b1 <= k < b2, 0 (BLACK) for k < b1
LadderClass(k, color_bounds) ==
    CASE k >= color_bounds.channel_4 -> 4
      [] color_bounds.channel_3 <= k /\ k < color_bounds.channel_4 -> 3
      [] color_bounds.channel_2 <= k /\ k < color_bounds.channel_3 -> 2
      [] color_bounds.channel_1 <= k /\ k < color_bounds.channel_2 -> 1
      [] k < color_bounds.channel_1 -> 0

\* the neighbour count the loop takes for pixel (row, col)
NeighbourCount(frame, row, col, window_size) ==
    count_non_zero(frame, RoiRect(row, col, window_size))

\* the square of side 2w + 1 centred at (row, col): rows row - w .. row + w
\* and columns col - w .. col + w, both inclusive
SquareInside(frame, row, col, w) ==
    /\ 0 <= row - w /\ row + w <= frame.rows - 1
    /\ 0 <= col - w /\ col + w <= frame.cols - 1

SquareCount(frame, row, col, w) ==
    Cardinality({rc \in ((row - w)..(row + w)) \X ((col - w)..(col + w)) :
                    At(frame, rc[1], rc[2]) # 0})

\* the non-zero pixels outside row 0 and column 0
CandidatePixels(frame) ==
    {rc \in (1..(frame.rows - 1)) \X (1..(frame.cols - 1)) : At(frame, rc[1], rc[2]) # 0}

(***************************************************************************)
(* CvlCapture: open_stream, read_frame and close_stream over opencv's      *)
(* VideoCapture.  An address is the sequence of its characters.            *)
(* i32::from_str accepts an optional sign followed by at least one digit   *)
(* (addresses this short cannot leave the i32 range).  What VideoCapture   *)
(* answers (opened, not opened, an error) is the library's and the         *)
(* device's: any of the three.                                             *)
(***************************************************************************)
Digits == {"0", "7"}

AddressChars == Digits \cup {"-", "+", "a"}

Addresses == UNION {[1..n -> AddressChars] : n \in 0..MaxAddressLen}

StreamSource == {"VideoFile", "WebCamera", "RtspStream"}

AllDigits(chars) == \A i \in 1..Len(chars) : chars[i] \in Digits

\* i32::from_str(address).is_ok()
ParsesAsI32(address) ==
    /\ Len(address) >= 1
    /\ IF address[1] \in {"-", "+"}
       THEN Len(address) >= 2 /\ AllDigits(Tail(address))
       ELSE AllDigits(address)

\* vcap.open(..) / vcap.open_file(..): Ok(true), Ok(false) or Err(_)
OpenOutcomes == {"Ok(true)", "Ok(false)", "Err"}

InitCapture ==
    /\ ChainIdle
    /\ DequeIdle /\ StatIdle /\ VibIdle
    /\ cap_opened = FALSE
    /\ cap_call = NoCall
    /\ cap_out = "-"

open_stream(address, source_type) ==
    /\ cap_out # "Panic"
    /\ cap_call' = [op |-> "open_stream", address |-> address, source_type |-> source_type]
    /\ IF source_type = "WebCamera" /\ ~ParsesAsI32(address)
       THEN \* Err(_) => Ok(false); then Ok(_) => Ok(())
            /\ cap_out' = "Ok"
            /\ UNCHANGED cap_opened
       ELSE \E open_result \in OpenOutcomes :
               /\ cap_opened' = (open_result = "Ok(true)")
               /\ cap_out' = IF open_result = "Err" THEN "Err(OpenStream)" ELSE "Ok"

\* self.capture.read(&mut frame).unwrap(): a capture that is not opened reads
\* no frame; an opened one reads a frame, reaches the end of the stream or
\* fails (and unwrap panics)
read_frame ==
    /\ cap_out # "Panic"
    /\ cap_call' = [op |-> "read_frame", address |-> <<>>, source_type |-> "-"]
    /\ cap_out' \in (IF cap_opened THEN {"Ok(frame)", "Err(NextFrameError)", "Panic"}
                     ELSE {"Err(NextFrameError)"})
    /\ UNCHANGED cap_opened

close_stream ==
    /\ cap_out # "Panic"
    /\ cap_call' = [op |-> "close_stream", address |-> <<>>, source_type |-> "-"]
    /\ \/ cap_out' = "Ok" /\ cap_opened' = FALSE
       \/ cap_out' = "Err(CloseStream)" /\ UNCHANGED cap_opened

NextCapture ==
    \/ \E address \in Addresses, source_type \in StreamSource :
          open_stream(address, source_type) /\ UNCHANGED <<chainVars, dequeVars, statVars, vibVars>>
    \/ read_frame /\ UNCHANGED <<chainVars, dequeVars, statVars, vibVars>>
    \/ close_stream /\ UNCHANGED <<chainVars, dequeVars, statVars, vibVars>>

SpecCapture == InitCapture /\ [][NextCapture]_vars

(***************************************************************************)
(* The sliding window taken alone: a caller hands single-channel frames of *)
(* one size and differing grey levels to run_chain, appends them and calls *)
(* reduce_abs, in any order, while the history holds at most MaxLen        *)
(* frames.                                                                 *)
(***************************************************************************)
GrayLevels == {0, 1, 2}

GrayFrames == {Mat("8UC1", 1, 1, <<level>>) : level \in GrayLevels}

InitWindow == Init

NextWindow ==
    \/ \E mat \in GrayFrames : run_chain(mat) /\ UNCHANGED <<caller, reduction, aside>>
    \/ append_frame /\ Len(frames') <= MaxLen /\ UNCHANGED <<caller, reduction, aside>>
    \/ reduce_abs /\ UNCHANGED <<caller, reduction, aside>>

SpecWindow == InitWindow /\ [][NextWindow]_vars

\* frames abs_diff accepts pairwise: one size and one type
EquallySized(h) ==
    \A i \in 1..Len(h) : h[i].typ = h[1].typ /\ h[i].rows = h[1].rows /\ h[i].cols = h[1].cols

\* acc = h[0]; acc = abs_diff(acc, h[i]) for i = 1 .. n - 1, on frames of
\* one size and type
RECURSIVE LeftFold(_, _)
LeftFold(h, n) ==
    IF n = 1 THEN h[1]
    ELSE LET acc == LeftFold(h, n - 1)
         IN Mat(acc.typ, acc.rows, acc.cols,
                [i \in 1..Len(acc.px) |-> AbsDiffPixel(acc.px[i], h[n].px[i], Channels(acc))])

(***************************************************************************)
(* The claims.                                                             *)
(***************************************************************************)
Stages == {"grayscale", "canny", "append_frame", "reduce_abs", "abs_recursively",
           "vibrating", "statistic"}

\* C1: sticky error.  Whenever the slot holds Err, every stage (and every
\* other call but run_chain) leaves the slot holding Err and does not panic:
\* a step that takes the slot from Err to Ok is a run_chain.
C1_StickyError ==
    [][IsErr(result) /\ op' # "run_chain" => IsErr(result') /\ ~aborted']_vars

\* C1 witness: reduce_abs has acted past the warm-up on a slot that held Err
\* (with a full history only that arm leaves Err(GenAbs) without a panic).
C1_Witness ==
    /\ op = "reduce_abs" /\ result = Err("GenAbs")
    /\ Len(frames) >= frames_count
    /\ ~aborted

\* C2: warm-up.  With fewer than frames_count frames in the history (k < 
\* frames_count appends on a fresh chain), reduce_abs and abs_recursively
\* leave the slot Err(Abs) and do not panic.
C2_WarmUp ==
    [][(Len(frames) < frames_count /\ op' \in {"reduce_abs", "abs_recursively"})
          => (result' = Err("GenAbs") /\ ~aborted')]_vars

C4_FramesBounded == ~aborted => Len(frames) <= frames_count

\* C5: in the per-frame chain ending with statistic, get_dispersion() is
\* None after each of the first frames_count - 1 warmed passes and Some
\* after the frames_count-th warmed pass and every later one.
C5_DispersionAfterWarmedPasses ==
    (last_stage = "statistic" /\ PassDone) =>
        /\ warmed < frames_count => dispersion = NoDispersion
        /\ warmed >= frames_count => dispersion # NoDispersion

\* C6: in the per-frame chain ending with vibrating, passes 1 .. frames_count - 1
\* end with get_result() = Err and every pass from the frames_count-th on ends
\* with get_result() = Ok (the 4-channel vibration frame).
C6_ResultAfterWarmUp ==
    (last_stage = "vibrating" /\ PassDone) =>
        /\ pass < frames_count => IsErr(returned)
        /\ pass >= frames_count => IsOk(returned) /\ returned.mat.typ = "64FC4"

\* C7: the cached dispersion is Some only when the statistic history has
\* reached frames_count entries (it never shrinks below that afterwards);
\* a new chain has none.
C7_DispersionOnlyAfterFull ==
    /\ dispersion # NoDispersion => Len(statistics) >= frames_count
    /\ op = "new" => dispersion = NoDispersion

\* C7 witness: statistic has computed a dispersion.
C7_Witness ==
    /\ op = "statistic" /\ ~aborted
    /\ dispersion # NoDispersion
    /\ Len(statistics) = frames_count

\* C8: the error kind is preserved.  When the slot holds Err(k), every stage
\* leaves Err(k), except vibrating, which leaves Err(Abs).
C8_ErrorKindPreserved ==
    [][(IsErr(result) /\ op' \in Stages) =>
          result' = (IF op' = "vibrating" THEN Err("GenAbs") ELSE result)]_vars

\* C9: get_result() returns a copy of the slot (Ok(f) for Ok(f), Err(k) for
\* Err(k)) and changes nothing of the chain.
C9_GetResultIsTheSlot ==
    op = "get_result" => returned = result

\* C10 as claimed: for every N >= 1, abs_reduce of N copies of a frame is the
\* zero frame of the same size.
C10_CopiesReduceToZero ==
    (abs_call = "gen_abs_frame_reduce" /\ CopiesOfOneFrame) =>
        abs_out = Ok(ZeroFrameLike(abs_in[1]))

\* C10 amended: abs_reduce of N copies of a frame is the zero frame of the
\* same size for every even N >= 2, and the frame itself for every odd N.
C10_CopiesReduceByParity ==
    (abs_call = "gen_abs_frame_reduce" /\ CopiesOfOneFrame) =>
        abs_out = (IF Len(abs_in) % 2 = 0 THEN Ok(ZeroFrameLike(abs_in[1]))
                   ELSE Ok(abs_in[1]))

\* C10 witness: four copies of a non-zero frame were reduced to the zero frame.
C10_Witness ==
    /\ abs_call = "gen_abs_frame_reduce" /\ CopiesOfOneFrame
    /\ Len(abs_in) = 4
    /\ abs_in[1] # ZeroFrameLike(abs_in[1])
    /\ abs_out = Ok(ZeroFrameLike(abs_in[1]))


\* C11: ring-buffer eviction.  After pushing L > C elements to a buffer
\* constructed with capacity C (and nothing else done to it), the buffer
\* holds exactly the last C pushed elements in insertion order, its length is
\* C and its capacity is still C.
C11_HoldsLastPushed ==
    (~deque_taken /\ Len(deque_pushed) > deque_size) =>
        /\ deque.inner = LastOf(deque_pushed, deque_size)
        /\ length(deque) = deque_size
        /\ max_size(deque) = deque_size

\* C12: after any sequence of push, take_first and take_last on a buffer
\* constructed with capacity C, 0 <= length <= C and max_size() is still C.
C12_LengthWithinCapacity ==
    /\ 0 <= length(deque) /\ length(deque) <= deque_size
    /\ max_size(deque) = deque_size

\* C13: whenever compute_statistic returns for a non-empty history, each
\* channel of the result is sqrt(sum_i (stat[i].ch - mean_ch)^2) / normalization
\* with mean_ch the truncated mean of channel ch over the history: the sum
\* under the root is the per-channel deviation.
C13_PerChannelDeviation ==
    (stat_out.tag = "Ok" /\ Len(stat_in) >= 1) =>
        /\ stat_out.ssd = PerChannelDeviation(stat_in)
        /\ stat_out.normalization = DEFAULT_NORMALIZATION

\* C14: whenever compute_statistic returns for a history whose entries are all
\* equal, the Dispersion is (0, 0, 0, 0): every sum under the root is 0.
C14_ConstantHistoryIsZero ==
    (stat_out.tag = "Ok" /\ AllEntriesEqual(stat_in)) => stat_out.ssd = ZeroSlice

\* C15: for every history of u16 counters no step of compute_statistic
\* overflows (the call does not panic on an overflow check) and every
\* channel's sum of squared deviations is nonnegative.
C15_DeviationNonNegative ==
    /\ (stat_out.tag = "Panic" /\ Len(stat_in) >= CHANNELS_COUNT) => ~stat_checks
    /\ stat_out.tag = "Ok" => \A ch \in 1..CHANNELS_COUNT : ~IsNegativeWide(stat_out.ssd[ch])

\* C16: abs_reduce and abs_recursive are total over sequences of equally
\* sized frames: each call returns Ok(frame) or Err(Abs) and never aborts,
\* and abs_reduce returns Err(Abs) exactly for the empty sequence.
C16_ReductionsTotal ==
    /\ abs_call # "-" => (IsOk(abs_out) \/ abs_out = Err("GenAbs"))
    /\ abs_call = "gen_abs_frame_reduce" => (abs_out = Err("GenAbs") <=> Len(abs_in) = 0)

\* C17: the fold and the recursive reduction are not equivalent.  On every
\* history made of an odd number N >= 3 of copies of one non-zero frame both
\* return Ok and the frames differ (the fold returns the frame, the
\* recursion the zero frame).
C17_ReductionsDiffer ==
    (/\ abs_call = "gen_abs_frame"
     /\ CopiesOfOneFrame /\ Len(abs_in) >= 3 /\ Len(abs_in) % 2 = 1
     /\ abs_in[1] # ZeroFrameLike(abs_in[1]))
    => (/\ IsOk(abs_out)
        /\ IsOk(gen_abs_frame_reduce(abs_in))
        /\ abs_out.mat # gen_abs_frame_reduce(abs_in).mat)

\* C17 witness: gen_abs_frame has answered the zero frame for three copies of
\* a non-zero frame, for which gen_abs_frame_reduce answers the frame.
C17_Witness ==
    /\ abs_call = "gen_abs_frame"
    /\ CopiesOfOneFrame /\ Len(abs_in) = 3
    /\ abs_in[1] # ZeroFrameLike(abs_in[1])
    /\ abs_out = Ok(ZeroFrameLike(abs_in[1]))
    /\ gen_abs_frame_reduce(abs_in) = Ok(abs_in[1])

\* C18: the Statistic returned by vibration satisfies
\* ch1 + ch2 + ch3 + ch4 <= the number of non-zero input pixels (r, c) with
\* r > 0, c > 0 and a valid ROI.
C18_StatisticBoundedByProcessed ==
    \A i \in 1..Len(vib_runs) :
        IsOk(vib_runs[i].out) =>
            SumSeq(vib_runs[i].out.mat.stat)
                <= Cardinality(ProcessedPixels(vib_in.image, vib_in.window_size))

\* C18 witness: vibration has returned a Statistic that counts some but not
\* all of the processed pixels (one of them stayed below the first bound).
C18_Witness ==
    /\ Len(vib_runs) >= 1 /\ IsOk(vib_runs[1].out)
    /\ SumSeq(vib_runs[1].out.mat.stat) >= 1
    /\ SumSeq(vib_runs[1].out.mat.stat)
           < Cardinality(ProcessedPixels(vib_in.image, vib_in.window_size))

C20_OpenStreamReportsFailure ==
    (/\ cap_call.op = "open_stream"
     /\ cap_call.source_type = "WebCamera"
     /\ ~ParsesAsI32(cap_call.address))
    => cap_out = "Err(OpenStream)"

\* C21: run_chain(frame) sets the slot to Ok(frame) from any prior slot state
\* (Ok or Err) and leaves the frame history, the statistic history and the
\* cached dispersion unchanged.
C21_RunChainReplacesSlot ==
    [][op' = "run_chain" =>
          /\ \E frame \in InputFrames : result' = Ok(frame)
          /\ UNCHANGED <<frames, statistics, dispersion>>]_vars

\* C21 witness: run_chain has put a frame into the slot of a chain that holds
\* frames, statistics and a dispersion.
C21_Witness ==
    /\ op = "run_chain" /\ \E frame \in InputFrames : result = Ok(frame)
    /\ frames # <<>> /\ statistics # <<>> /\ dispersion # NoDispersion

\* C22: append_frame on a slot Ok(f) appends f as the newest (last) element
\* of the frame history, keeps the relative order of the frames already
\* there, and sets the slot to Ok(empty frame); it changes neither the
\* statistic history nor the dispersion.
C22_AppendFrameAppendsLast ==
    [][(op' = "append_frame" /\ IsOk(result)) =>
          /\ frames' = Append(frames, result.mat)
          /\ result' = Ok(CvlMatDefault)
          /\ UNCHANGED <<statistics, dispersion>>]_vars

\* C22 witness: append_frame has put a frame behind a different frame and
\* left the empty frame in the slot.
C22_Witness ==
    /\ op = "append_frame" /\ result = Ok(CvlMatDefault)
    /\ Len(frames) = 2 /\ frames[1] # frames[2]
    /\ statistics # <<>>

\* C23: reduce_abs with an Ok slot and a frame history of length >=
\* frames_count removes exactly the oldest frame from the history and sets the
\* slot to the left fold acc = h[0]; acc = abs_diff(acc, h[i]) over the
\* remaining frames h in insertion order (oldest first), the remaining frames
\* being of one size as abs_diff asks; when no frame remains the slot is
\* Err(Abs).
C23_ReduceAbsFoldsTheRest ==
    [][(op' = "reduce_abs" /\ IsOk(result) /\ Len(frames) >= frames_count) =>
          /\ frames' = Tail(frames)
          /\ EquallySized(Tail(frames)) =>
                result' = (IF Len(frames) = 1 THEN Err("GenAbs")
                           ELSE Ok(LeftFold(Tail(frames), Len(frames) - 1)))]_vars

\* C23 witness: reduce_abs has folded three remaining frames whose fold
\* depends on their order (grey levels 1, 1, 2 give 2; 2, 1, 1 would give 0).
C23_Witness ==
    /\ op = "reduce_abs" /\ Len(frames) = 3
    /\ frames[1].px = <<1>> /\ frames[2].px = <<1>> /\ frames[3].px = <<2>>
    /\ IsOk(result) /\ result.mat.px = <<2>>

\* C24: vibration ladder.  For ascending bounds b1 <= b2 <= b3 <= b4 and
\* every processed pixel with ROI non-zero count k, the output pixel is RED
\* iff k >= b4, YELLOW iff b3 <= k < b4, CYAN iff b2 <= k < b3, GREEN iff
\* b1 <= k < b2, BLACK iff k < b1, and exactly the counter of the chosen
\* class (ch4, ch3, ch2, ch1, none) is incremented by one: each counter is
\* the number of processed pixels of its class.
C24_Ladder ==
    \A i \in 1..Len(vib_runs) :
        (IsOk(vib_runs[i].out) /\ Ascending(vib_in.color_bounds)) =>
            LET image == vib_in.image
                w == vib_in.window_size
                out == vib_runs[i].out.mat
                class(rc) == LadderClass(NeighbourCount(image, rc[1], rc[2], w), vib_in.color_bounds)
            IN /\ \A rc \in ProcessedPixels(image, w) :
                     At(out, rc[1], rc[2]) = ClassColor(class(rc))
               /\ \A ch \in 1..CHANNELS_COUNT :
                     out.stat[ch] = Cardinality({rc \in ProcessedPixels(image, w) : class(rc) = ch})

\* C24 witness: vibration has coloured one frame with a pixel whose count
\* equals b4 (RED), one at b2 (CYAN) and one at b1 (GREEN).
C24_Witness ==
    /\ Len(vib_runs) >= 1 /\ IsOk(vib_runs[1].out)
    /\ vib_in.color_bounds = ColorBoundsNew(1, 2, 3, 4)
    /\ vib_runs[1].out.mat.stat[1] >= 1
    /\ vib_runs[1].out.mat.stat[2] >= 1
    /\ vib_runs[1].out.mat.stat[4] >= 1

\* C25: for a non-zero pixel (r, c) and window_size w, the neighbour count k
\* used by vibration is the number of non-zero pixels in the square of side
\* 2w + 1 centred at (r, c), i.e. rows r-w..r+w and columns c-w..c+w
\* inclusive (so the centre pixel is included and k >= 1); the pixel is
\* skipped exactly when that square is not inside the image.
C25_CentredSquare ==
    \A i \in 1..Len(vib_runs) :
        IsOk(vib_runs[i].out) =>
            \A rc \in CandidatePixels(vib_in.image) :
                LET image == vib_in.image
                    w == vib_in.window_size
                IN /\ ProcessedPixel(image, rc[1], rc[2], w) <=> SquareInside(image, rc[1], rc[2], w)
                   /\ ProcessedPixel(image, rc[1], rc[2], w) =>
                         /\ NeighbourCount(image, rc[1], rc[2], w) = SquareCount(image, rc[1], rc[2], w)
                         /\ NeighbourCount(image, rc[1], rc[2], w) >= 1

\* C26: for every input frame, every output pixel of vibration in row 0 or
\* column 0 is BLACK and contributes to no Statistic counter, whatever the
\* input values; every output pixel at a position where the input is zero is
\* BLACK.  (Each counter counts only non-zero pixels outside row 0 and
\* column 0 that got its colour.)
C26_BorderAndZeroStayBlack ==
    \A i \in 1..Len(vib_runs) :
        IsOk(vib_runs[i].out) =>
            LET image == vib_in.image
                out == vib_runs[i].out.mat
            IN /\ \A r \in 0..(image.rows - 1), c \in 0..(image.cols - 1) :
                     (r = 0 \/ c = 0 \/ At(image, r, c) = 0) => At(out, r, c) = BLACK_COLOR
               /\ \A ch \in 1..CHANNELS_COUNT :
                     out.stat[ch] = Cardinality({rc \in CandidatePixels(image) :
                                                    At(out, rc[1], rc[2]) = ClassColor(ch)})

\* C26 witness: vibration has coloured a pixel of a frame that has non-zero
\* pixels in row 0 and in column 0 and a zero pixel elsewhere.
C26_Witness ==
    /\ Len(vib_runs) >= 1 /\ IsOk(vib_runs[1].out)
    /\ At(vib_in.image, 0, 1) # 0 /\ At(vib_in.image, 1, 0) # 0
    /\ At(vib_in.image, 1, 1) = 0
    /\ SumSeq(vib_runs[1].out.mat.stat) >= 1

\* C27: when the slot holds Err, no stage (grayscale, canny, append_frame,
\* reduce_abs, abs_recursively, vibrating, statistic) changes the frame
\* history, the statistic history or the cached dispersion.
C27_ErrStagesKeepHistories ==
    [][(IsErr(result) /\ op' \in Stages) => UNCHANGED <<frames, statistics, dispersion>>]_vars

\* C27 witness: statistic has acted on a slot holding Err in a chain that
\* holds frames, statistics and a dispersion, and left Err(ComputeStatistic).
C27_Witness ==
    /\ op = "statistic" /\ result = Err("ComputeStatistic")
    /\ frames # <<>> /\ statistics # <<>> /\ dispersion # NoDispersion

\* C28: in the per-frame chain .. reduce_abs -> vibrating -> statistic, each
\* warmed pass adds exactly one entry to the statistic history (the Statistic
\* of that pass's vibration frame), so every Dispersion cached by statistic()
\* is computed over exactly the frames_count most recent distinct passes:
\* after a pass the history holds one entry per warmed pass, frames_count at
\* most.
C28_OneEntryPerWarmedPass ==
    (last_stage = "statistic" /\ PassDone) =>
        Len(statistics) = Min(warmed, frames_count)

\* C29: in the per-frame chain append_frame -> reduce_abs on a fresh chain (no
\* set_frames), the frame history length after every pass is at most
\* frames_count - 1, and every successful reduce_abs folds exactly the
\* frames_count - 1 most recently appended frames (the frame appended
\* frames_count - 1 passes earlier is already dropped; a reduce_abs that
\* succeeds has at least one frame to fold).
C29_WindowIsOneShort ==
    [][/\ op' \in {"reduce_abs", "vibrating", "statistic", "get_result"}
             => Len(frames') <= frames_count - 1
       /\ (op' = "reduce_abs" /\ IsOk(result') /\ ~aborted')
             => /\ frames' = LastOf(frames, frames_count - 1)
                /\ frames' # <<>>
                /\ result' = Ok(LeftFold(frames', frames_count - 1))]_vars

\* C29 witness: with frames_count = 3, reduce_abs of the fourth pass has
\* folded the two frames appended last, which differ.
C29_Witness ==
    /\ op = "reduce_abs" /\ IsOk(result) /\ ~aborted
    /\ frames_count = 3 /\ pass = 4
    /\ Len(frames) = 2 /\ frames[1] # frames[2]
    /\ result = Ok(LeftFold(frames, 2))

\* C30: compute_statistic returns a Dispersion without aborting for every
\* non-empty statistic history, in particular for histories of length 1, 2
\* and 3 (taken in a build without overflow checks, where no arithmetic step
\* can abort).
C30_ComputeStatisticReturns ==
    (stat_out # NotCalled /\ Len(stat_in) >= 1 /\ ~stat_checks) => stat_out.tag = "Ok"

=============================================================================
